---- MODULE Spec2Model ----
(***************************************************************************)
(* Model of the contact-backend LLM table-processing service:              *)
(*   - the Response Extractor  (app/llm_service.py, _parse_llm_response)   *)
(*   - the script extractor    (simple_test_parsing.py, parse_llm_response)*)
(*   - the Type Normalizer     (app/llm_service.py, _normalize_contact_..)*)
(*   - the Intent Classifier   (app/llm_service.py, classify_intent)       *)
(*   - the orchestrator        (app/llm_service.py, process_data and       *)
(*                              app/routers/process.py, process_data)      *)
(*   - the JSON cleanup        (simple_test_parsing.py, clean_json_string) *)
(*   - the key check and the   (app/security.py, verify_api_key and        *)
(*     rate limiter             check_rate_limit)                          *)
(*   - concurrent requests     (app/routers/process.py on one event loop)  *)
(*                                                                         *)
(* Texts are sequences of tokens.  A token is a record [k, s, n]: k is the *)
(* token class, s its characters, n its numeric value (number tokens).     *)
(* Python values are tagged records.  An operation that can raise returns  *)
(* an outcome record whose kind is "return" or "raise".                    *)
(***************************************************************************)
EXTENDS Integers, Sequences, FiniteSets, TLC

VARIABLES
    response_content,   \* extractor harness: raw model reply (token sequence)
    fallback_data,      \* extractor harness: the caller's table
    svc_out,            \* outcome of LLMService._parse_llm_response
    script_out,         \* outcome of simple_test_parsing.parse_llm_response
    data,               \* normalizer harness: the table handed to normalize
    once,               \* outcome of normalize(data)
    twice,              \* outcome of normalize(normalize(data))
    categories,         \* classifier harness: settings.INTENT_CATEGORIES
    reply,              \* classifier harness: outcome of llm.ainvoke
    intent_out,         \* outcome of classify_intent
    pc,                 \* request: position of the router coroutine
    table_data,         \* request: request.request_data.table_data
    intent,             \* request: value returned by classify_intent
    google_api_key,     \* request: settings.GOOGLE_API_KEY
    generation,         \* request: outcome of the generation llm.ainvoke
    response,           \* request: what the router hands back
    json_text,          \* cleanup harness: the candidate array text
    fixed_str,          \* cleanup harness: that text with its punctuation right
    cleaned,            \* outcome of clean_json_string(json_text)
    rate_limit_storage, \* server: security.rate_limit_storage
    clock,              \* server: time.time() // 60, the running minute
    rate_limit,         \* server: settings.RATE_LIMIT_PER_MINUTE
    requests,           \* server: one record per request coroutine
    in_flight           \* server: the model invocations awaiting their reply

vars == << response_content, fallback_data, svc_out, script_out,
           data, once, twice, categories, reply, intent_out,
           pc, table_data, intent, google_api_key, generation, response,
           json_text, fixed_str, cleaned,
           rate_limit_storage, clock, rate_limit, requests, in_flight >>

extractVars == << response_content, fallback_data, svc_out, script_out >>
normVars    == << data, once, twice >>
classVars   == << categories, reply, intent_out >>
reqVars     == << pc, table_data, intent, google_api_key, generation, response >>
cleanVars   == << json_text, fixed_str, cleaned >>
serverVars  == << rate_limit_storage, clock, rate_limit, requests, in_flight >>

(***************************************************************************)
(* Bounds of the model.                                                    *)
(***************************************************************************)
MaxRows == 2        \* rows of a table / elements of a data array
MaxProse == 1       \* prose words before and after the payload of a reply
NumRequests == 2    \* requests the server receives in one run
MaxLimit == 2       \* largest configured RATE_LIMIT_PER_MINUTE
FirstMinute == 9    \* the minute the clock shows when the server starts
MaxMinutes == 2     \* minutes the clock moves on during one run

NotRun == [kind |-> "not_run"]

(***************************************************************************)
(* Python values.                                                          *)
(***************************************************************************)
PyNone == [t |-> "none"]
PyStr(s) == [t |-> "str", s |-> s]
PyChars(cs) == [t |-> "chars", cs |-> cs]  \* a str whose characters matter
PyFloat(h) == [t |-> "float", halves |-> h, nan |-> FALSE]   \* the float h/2
PyNaN == [t |-> "float", halves |-> 0, nan |-> TRUE]
PyInt(n) == [t |-> "int", n |-> n]
PyBool(b) == [t |-> "bool", b |-> b]
PyList(a) == [t |-> "list", a |-> a]
PyDict(m) == [t |-> "dict", m |-> m]      \* m: sequence of [k, v], insertion order

Item(k, v) == [k |-> k, v |-> v]

\* Python truth value, as used by the `or` chain
Truthy(v) ==
    CASE v.t = "none" -> FALSE
      [] v.t = "str"  -> v.s # ""
      [] v.t = "chars" -> v.cs # << >>
      [] v.t = "float" -> v.nan \/ v.halves # 0
      [] v.t = "int"  -> v.n # 0
      [] v.t = "bool" -> v.b
      [] v.t = "list" -> Len(v.a) > 0
      [] v.t = "dict" -> Len(v.m) > 0
      [] OTHER -> TRUE

\* dict.__setitem__: a repeated key keeps its position and takes the new value
DictSet(m, k, v) ==
    IF \E i \in 1..Len(m) : m[i].k = k
    THEN [i \in 1..Len(m) |-> IF m[i].k = k THEN Item(k, v) ELSE m[i]]
    ELSE Append(m, Item(k, v))

HasKey(d, k) == \E i \in 1..Len(d.m) : d.m[i].k = k

\* dict.get(key, default)
DictGet(d, k, default) ==
    IF HasKey(d, k)
    THEN d.m[CHOOSE i \in 1..Len(d.m) : d.m[i].k = k].v
    ELSE default

(***************************************************************************)
(* Tokens of a reply text.                                                 *)
(***************************************************************************)
Punct(s) == [k |-> "punct", s |-> s, n |-> 0]
StrTok(s) == [k |-> "string", s |-> s, n |-> 0]    \* a JSON string literal "s"
NumTok(n) == [k |-> "number", s |-> "", n |-> n]
LitTok(s) == [k |-> "literal", s |-> s, n |-> 0]   \* true, false, null
Word(s) == [k |-> "word", s |-> s, n |-> 0]        \* bare prose, markers included

TD_MARKER == Word("TRANSFORMED_DATA:")
FD_MARKER == Word("FILTERED_DATA:")
AD_MARKER == Word("ANALYZED_DATA:")
EX_MARKER == Word("EXPLANATION:")

\* first index >= from whose token is tok, 0 when there is none (str.find)
RECURSIVE Find(_, _, _)
Find(toks, tok, from) ==
    IF from > Len(toks) THEN 0
    ELSE IF toks[from] = tok THEN from
    ELSE Find(toks, tok, from + 1)

\* last index whose token is tok, 0 when there is none
RECURSIVE FindLast(_, _, _)
FindLast(toks, tok, upto) ==
    IF upto < 1 THEN 0
    ELSE IF toks[upto] = tok THEN upto
    ELSE FindLast(toks, tok, upto - 1)

(***************************************************************************)
(* json.loads over tokens: a recursive-descent decoder.  A result is       *)
(* [ok |-> TRUE, val, next] or [ok |-> FALSE].                             *)
(***************************************************************************)
Fail == [ok |-> FALSE]
Good(v, next) == [ok |-> TRUE, val |-> v, next |-> next]

LitValue(tok) ==
    CASE tok.k = "string" -> PyStr(tok.s)
      [] tok.k = "number" -> PyInt(tok.n)
      [] tok.s = "true"   -> PyBool(TRUE)
      [] tok.s = "false"  -> PyBool(FALSE)
      [] OTHER            -> PyNone

RECURSIVE ParseValue(_, _), ParseElems(_, _, _), ParseMembers(_, _, _)
ParseValue(toks, i) ==
    IF i > Len(toks) THEN Fail
    ELSE IF toks[i].k \in {"string", "number", "literal"}
         THEN Good(LitValue(toks[i]), i + 1)
    ELSE IF toks[i] = Punct("[")
         THEN IF i + 1 <= Len(toks) /\ toks[i + 1] = Punct("]")
              THEN Good(PyList(<< >>), i + 2)
              ELSE ParseElems(toks, i + 1, << >>)
    ELSE IF toks[i] = Punct("{")
         THEN IF i + 1 <= Len(toks) /\ toks[i + 1] = Punct("}")
              THEN Good(PyDict(<< >>), i + 2)
              ELSE ParseMembers(toks, i + 1, << >>)
    ELSE Fail

ParseElems(toks, i, acc) ==
    LET r == ParseValue(toks, i) IN
    IF ~r.ok \/ r.next > Len(toks) THEN Fail
    ELSE IF toks[r.next] = Punct(",")
         THEN ParseElems(toks, r.next + 1, Append(acc, r.val))
    ELSE IF toks[r.next] = Punct("]")
         THEN Good(PyList(Append(acc, r.val)), r.next + 1)
    ELSE Fail

ParseMembers(toks, i, acc) ==
    IF i + 1 > Len(toks) \/ toks[i].k # "string" \/ toks[i + 1] # Punct(":")
    THEN Fail
    ELSE LET r == ParseValue(toks, i + 2) IN
         IF ~r.ok \/ r.next > Len(toks) THEN Fail
         ELSE IF toks[r.next] = Punct(",")
              THEN ParseMembers(toks, r.next + 1, DictSet(acc, toks[i].s, r.val))
         ELSE IF toks[r.next] = Punct("}")
              THEN Good(PyDict(DictSet(acc, toks[i].s, r.val)), r.next + 1)
         ELSE Fail

\* json.loads(text): the whole text must be one JSON value
JsonLoads(toks) ==
    LET r == ParseValue(toks, 1) IN
    IF r.ok /\ r.next = Len(toks) + 1 THEN r ELSE Fail

(***************************************************************************)
(* json.dumps over tokens, used to write the replies the model draws.      *)
(***************************************************************************)
RECURSIVE Render(_), RenderElems(_), RenderMembers(_)
Render(v) ==
    CASE v.t = "str"  -> << StrTok(v.s) >>
      [] v.t = "int"  -> << NumTok(v.n) >>
      [] v.t = "bool" -> << LitTok(IF v.b THEN "true" ELSE "false") >>
      [] v.t = "none" -> << LitTok("null") >>
      [] v.t = "list" -> << Punct("[") >> \o RenderElems(v.a) \o << Punct("]") >>
      [] v.t = "dict" -> << Punct("{") >> \o RenderMembers(v.m) \o << Punct("}") >>

RenderElems(a) ==
    IF a = << >> THEN << >>
    ELSE IF Len(a) = 1 THEN Render(a[1])
    ELSE Render(a[1]) \o << Punct(",") >> \o RenderElems(Tail(a))

RenderMembers(m) ==
    IF m = << >> THEN << >>
    ELSE LET one == << StrTok(m[1].k), Punct(":") >> \o Render(m[1].v) IN
         IF Len(m) = 1 THEN one
         ELSE one \o << Punct(",") >> \o RenderMembers(Tail(m))

(***************************************************************************)
(* LLMService._parse_llm_response                                          *)
(***************************************************************************)
Return(explanation, records) ==
    [kind |-> "return", explanation |-> explanation, records |-> records]
Raise(err) == [kind |-> "raise", err |-> err]

COULD_NOT_PARSE == PyStr("Could not parse LLM response as JSON.")

\* re.search(r'\{.*\}', text, re.DOTALL): first "{" to the last "}" after it
BraceSpan(toks) ==
    LET first == Find(toks, Punct("{"), 1)
        last  == FindLast(toks, Punct("}"), Len(toks))
    IN  IF first # 0 /\ last > first
        THEN [found |-> TRUE, span |-> SubSeq(toks, first, last)]
        ELSE [found |-> FALSE]

\* the reference reading of the key aliases: the first key that is present
FirstPresent(a, b, c, d) ==
    IF a.t # "none" THEN a
    ELSE IF b.t # "none" THEN b
    ELSE IF c.t # "none" THEN c
    ELSE d

\* a or b or c or d: the first truthy operand, the last one when none is
OrChain(a, b, c, d) ==
    IF Truthy(a) THEN a
    ELSE IF Truthy(b) THEN b
    ELSE IF Truthy(c) THEN c
    ELSE d

\* lines 201-205: the key lookups on the decoded value
ExtractKeys(jsonData, fallback) ==
    IF jsonData.t # "dict" THEN Raise("AttributeError")
    ELSE Return(DictGet(jsonData, "EXPLANATION", PyStr("")),
                OrChain(DictGet(jsonData, "TRANSFORMED_DATA", PyNone),
                        DictGet(jsonData, "FILTERED_DATA", PyNone),
                        DictGet(jsonData, "ANALYZED_DATA", PyNone),
                        fallback))

ParseLlmResponse(toks, fallback) ==
    LET direct == JsonLoads(toks) IN
    IF direct.ok THEN ExtractKeys(direct.val, fallback)
    ELSE LET match == BraceSpan(toks) IN
         IF match.found
         THEN LET inner == JsonLoads(match.span) IN
              IF inner.ok THEN ExtractKeys(inner.val, fallback)
              ELSE Raise("JSONDecodeError")
         ELSE Return(COULD_NOT_PARSE, fallback)

(***************************************************************************)
(* simple_test_parsing.parse_llm_response: marker-anchored bracket         *)
(* balancing.  The outcome also records, in order, every json_str the loop *)
(* handed to json.loads.                                                   *)
(***************************************************************************)
DATA_PROCESSED == PyStr("Data processed successfully.")
PyText(toks) == [t |-> "text", toks |-> toks]      \* a slice of the reply

ScriptReturn(explanation, records, tried) ==
    [kind |-> "return", explanation |-> explanation, records |-> records,
     candidates |-> tried]

\* lines 43-44: text.split("EXPLANATION:")[-1]
ScriptExplanation(toks) ==
    LET at == FindLast(toks, EX_MARKER, Len(toks)) IN
    IF at = 0 THEN DATA_PROCESSED
    ELSE PyText(SubSeq(toks, at + 1, Len(toks)))

\* line 49: text.split("TRANSFORMED_DATA:")[1]
AfterTransformed(toks) ==
    LET m1 == Find(toks, TD_MARKER, 1)
        m2 == Find(toks, TD_MARKER, m1 + 1)
    IN  SubSeq(toks, m1 + 1, IF m2 = 0 THEN Len(toks) ELSE m2 - 1)

\* the non-greedy pattern \[.*?\] of the regex variant: the first "]"
FirstCloseEnd(after, from, count) == Find(after, Punct("]"), from)

\* lines 55-61: scan on from `from` with bracket_count = count; the index of
\* the "]" that brings the count to zero, 0 when the text ends first
RECURSIVE CandidateEnd(_, _, _)
CandidateEnd(after, from, count) ==
    IF from > Len(after) THEN 0
    ELSE IF after[from] = Punct("[") THEN CandidateEnd(after, from + 1, count + 1)
    ELSE IF after[from] = Punct("]")
         THEN IF count - 1 = 0 THEN from
              ELSE CandidateEnd(after, from + 1, count - 1)
    ELSE CandidateEnd(after, from + 1, count)

\* lines 56-70: each candidate is decoded; a failed decode resumes the scan
RECURSIVE BracketLoop(_, _, _, _, _, _)
BracketLoop(after, start, from, explanation, fallback, tried) ==
    LET end == CandidateEnd(after, from, 0) IN
    IF end = 0 THEN ScriptReturn(explanation, fallback, tried)
    ELSE LET json_str == SubSeq(after, start, end)
             decoded == JsonLoads(json_str)
         IN  IF decoded.ok
             THEN ScriptReturn(explanation, decoded.val, Append(tried, json_str))
             ELSE BracketLoop(after, start, end + 1, explanation, fallback,
                              Append(tried, json_str))

ScriptParse(toks, fallback) ==
    LET explanation == ScriptExplanation(toks) IN
    IF Find(toks, TD_MARKER, 1) = 0 THEN ScriptReturn(explanation, fallback, << >>)
    ELSE LET after == AfterTransformed(toks)
             bracket_start == Find(after, Punct("["), 1)
         IN  IF bracket_start = 0 THEN ScriptReturn(explanation, fallback, << >>)
             ELSE BracketLoop(after, bracket_start, bracket_start,
                              explanation, fallback, << >>)

(***************************************************************************)
(* The replies and tables the extractor harness draws.                     *)
(***************************************************************************)
Row(i) == PyDict(<< Item("id", PyInt(i)) >>)
FlatRow(i) == PyDict(<< Item("id", PyInt(i)), Item("reasoning", PyStr("why")) >>)
NestedRow(i) ==
    PyDict(<< Item("id", PyInt(i)), Item("tags", PyList(<< PyInt(i) >>)) >>)

Table(n) == PyList([i \in 1..n |-> Row(i)])
FlatArr(n) == PyList([i \in 1..n |-> FlatRow(i)])
NestedArr(n) == PyList([i \in 1..n |-> NestedRow(i)])

Tables == { Table(n) : n \in 0..MaxRows }
DataArrays == { FlatArr(n) : n \in 0..MaxRows } \cup { NestedArr(n) : n \in 1..MaxRows }

Member(k, v) == IF v = PyNone THEN << >> ELSE << Item(k, v) >>

\* the documented reply object: data keys holding arrays, EXPLANATION holding text
DocObject(td, fd, ad, ex) ==
    PyDict(Member("TRANSFORMED_DATA", td) \o Member("FILTERED_DATA", fd)
           \o Member("ANALYZED_DATA", ad) \o Member("EXPLANATION", ex))

DocObjects ==
    { DocObject(td, fd, ad, ex) :
        td \in {PyNone} \cup DataArrays,
        fd \in {PyNone, FlatArr(0), FlatArr(1)},
        ad \in {PyNone, FlatArr(0), NestedArr(1)},
        ex \in {PyNone, PyStr(""), PyStr("Added tags")} }

\* the system prompt's literal layout: no comma between the two members
PromptLiteral(arr) ==
    << Punct("{"), StrTok("TRANSFORMED_DATA"), Punct(":") >> \o Render(arr)
    \o << StrTok("EXPLANATION"), Punct(":"), StrTok("Added tags"), Punct("}") >>

ExplanationTails == { << >>, << EX_MARKER, Word("Added"), Word("tags") >> }

MarkerReply(marker, arr, tail) == << marker >> \o Render(arr) \o tail

Bodies ==
    { Render(o) : o \in DocObjects }
    \cup { PromptLiteral(a) : a \in DataArrays }
    \cup { MarkerReply(m, a, t) : m \in {TD_MARKER, FD_MARKER, AD_MARKER},
                                  a \in DataArrays, t \in ExplanationTails }
    \cup { Render(a) : a \in DataArrays }
    \cup { Render(Row(1)), << NumTok(1) >>, << StrTok("done") >>, << >>,
           << Punct("{"), Word("world"), Punct("}") >>,
           << Punct("}"), Word("or"), Punct("{") >> }

Prose(n) == [i \in 1..n |-> Word("prose")]
Cited == << Word("see"), Punct("["), NumTok(1), Punct("]") >>

\* what may surround the payload: up to MaxProse words, or a bracketed citation
Surround == { Prose(n) : n \in 0..MaxProse } \cup { Cited }

RawTexts == { a \o body \o b : a \in Surround, b \in Surround, body \in Bodies }

(***************************************************************************)
(* Extractor harness: one reply, one fallback table, both extractors.      *)
(***************************************************************************)
InitExtract ==
    /\ response_content \in RawTexts
    /\ fallback_data \in Tables
    /\ svc_out = NotRun
    /\ script_out = NotRun

IdleExtract ==
    /\ response_content = << >>
    /\ fallback_data = Table(0)
    /\ svc_out = NotRun
    /\ script_out = NotRun

ParseService ==
    /\ svc_out = NotRun
    /\ svc_out' = ParseLlmResponse(response_content, fallback_data)
    /\ UNCHANGED << response_content, fallback_data, script_out >>

ParseScript ==
    /\ script_out = NotRun
    /\ script_out' = ScriptParse(response_content, fallback_data)
    /\ UNCHANGED << response_content, fallback_data, svc_out >>

(***************************************************************************)
(* LLMService._normalize_contact_signals                                   *)
(***************************************************************************)
Value(v) == [kind |-> "return", value |-> v]

Digits == <<"0", "1", "2", "3", "4", "5", "6", "7", "8", "9">>
IsDigit(c) == \E d \in 1..10 : Digits[d] = c
DigitVal(c) == (CHOOSE d \in 1..10 : Digits[d] = c) - 1

\* str.strip() on a character sequence
RECURSIVE LStrip(_)
LStrip(cs) == IF cs # << >> /\ Head(cs) = " " THEN LStrip(Tail(cs)) ELSE cs
RECURSIVE RStrip(_)
RStrip(cs) ==
    IF cs # << >> /\ cs[Len(cs)] = " " THEN RStrip(SubSeq(cs, 1, Len(cs) - 1)) ELSE cs
Strip(cs) == RStrip(LStrip(cs))

RECURSIVE DecimalValue(_, _)
DecimalValue(cs, acc) ==
    IF cs = << >> THEN acc ELSE DecimalValue(Tail(cs), 10 * acc + DigitVal(Head(cs)))

\* int(str): optional blanks, optional sign, one or more digits
IntOfChars(cs) ==
    LET body == Strip(cs)
        signed == body # << >> /\ Head(body) \in {"-", "+"}
        digits == IF signed THEN Tail(body) ELSE body
    IN  IF digits = << >> \/ \E i \in 1..Len(digits) : ~IsDigit(digits[i])
        THEN Raise("ValueError")
        ELSE Value(PyInt(IF signed /\ Head(body) = "-"
                         THEN 0 - DecimalValue(digits, 0)
                         ELSE DecimalValue(digits, 0)))

\* int(float): truncation toward zero; nan has no integer value
IntOfFloat(f) ==
    IF f.nan THEN Raise("ValueError")
    ELSE Value(PyInt(IF f.halves >= 0 THEN f.halves \div 2
                     ELSE 0 - ((0 - f.halves) \div 2)))

IsStr(v) == v.t \in {"str", "chars"}
IsInt(v) == v.t \in {"int", "bool"}        \* bool is a subclass of int

StrOfStr(v) == v                           \* str(value) of a str

\* the coercion applied to one key/value pair (lines 216-224)

CoerceField(key, value) ==
    IF key = "confidence"
    THEN IF value.t = "chars" THEN IntOfChars(value.cs)
         ELSE IF value.t = "float" THEN IntOfFloat(value)
         ELSE Value(value)
    ELSE IF key \in {"actionTaken", "isNew"}
    THEN IF IsStr(value) \/ IsInt(value) THEN Value(PyBool(Truthy(value)))
         ELSE Value(value)
    ELSE IF key = "timestamp" /\ IsStr(value) THEN Value(StrOfStr(value))
    ELSE Value(value)

RECURSIVE NormalizeItem(_, _)
NormalizeItem(m, acc) ==
    IF m = << >> THEN Value(PyDict(acc))
    ELSE LET c == CoerceField(m[1].k, m[1].v) IN
         IF c.kind = "raise" THEN c
         ELSE NormalizeItem(Tail(m), DictSet(acc, m[1].k, c.value))

RECURSIVE NormalizeRows(_, _)
NormalizeRows(rows, acc) ==
    IF rows = << >> THEN Value(PyList(acc))
    ELSE LET r == NormalizeItem(rows[1].m, << >>) IN
         IF r.kind = "raise" THEN r
         ELSE NormalizeRows(Tail(rows), Append(acc, r.value))

\* the accumulator started from the input instead of from the empty list
NormalizeOntoInput(table) == NormalizeRows(table.a, table.a)

NormalizeContactSignals(table) == NormalizeRows(table.a, << >>)

\* normalize applied to the outcome of an earlier call: a raise propagates
NormalizeOutcome(o) ==
    IF o.kind = "raise" THEN o ELSE NormalizeContactSignals(o.value)

(***************************************************************************)
(* The tables the normalizer harness draws: up to MaxRows records, each    *)
(* empty, of one field, or one of two records of several fields.           *)
(***************************************************************************)
FieldValues ==
    { PyChars(<< >>), PyChars(<<"8", "0">>), PyChars(<<" ", "-", "7">>),
      PyChars(<<"h", "i">>),
      PyInt(0), PyInt(7), PyFloat(3), PyFloat(-3), PyNaN,
      PyBool(TRUE), PyBool(FALSE) }
FlagValues ==
    { PyChars(<< >>), PyChars(<<"h", "i">>), PyInt(0), PyInt(7), PyFloat(3),
      PyBool(TRUE), PyBool(FALSE) }
OtherValues == { PyChars(<<"8", "0">>), PyInt(7) }
Fields ==
    { Item("confidence", v) : v \in FieldValues }
    \cup { Item("actionTaken", v) : v \in FlagValues }
    \cup { Item(k, v) : k \in {"isNew", "timestamp"}, v \in OtherValues }
    \cup { Item("company", PyChars(<<"h", "i">>)) }

SignalRecord ==
    << Item("company", PyChars(<<"h", "i">>)), Item("timestamp", PyChars(<<"8", "0">>)),
       Item("confidence", PyFloat(3)), Item("actionTaken", PyInt(0)) >>
RawRecord ==
    << Item("confidence", PyChars(<<"8", "0">>)), Item("isNew", PyChars(<< >>)),
       Item("timestamp", PyInt(7)) >>

NormRecords ==
    { PyDict(m) : m \in { << >>, SignalRecord, RawRecord } \cup { << f >> : f \in Fields } }
NormTables == UNION { [1..n -> NormRecords] : n \in 0..MaxRows }

InitNormalize ==
    /\ data \in { PyList(rows) : rows \in NormTables }
    /\ once = NotRun
    /\ twice = NotRun

IdleNormalize ==
    /\ data = PyList(<< >>)
    /\ once = NotRun
    /\ twice = NotRun

NormalizeOnce ==
    /\ once = NotRun
    /\ once' = NormalizeContactSignals(data)
    /\ UNCHANGED << data, twice >>

NormalizeTwice ==
    /\ once # NotRun
    /\ twice = NotRun
    /\ twice' = NormalizeOutcome(once)
    /\ UNCHANGED << data, once >>

(***************************************************************************)
(* LLMService.classify_intent                                              *)
(* A reply text is a sequence of pieces: blanks and words.                 *)
(***************************************************************************)
\* config.py: the shipped list, and the list with its commented entries restored
INTENT_CATEGORIES == << <<"data_transformation">> >>
ALL_CATEGORIES ==
    << <<"data_filtering">>, <<"data_transformation">>, <<"data_analysis">> >>

\* str.lower() of one piece
LowerPiece(w) ==
    CASE w = "Data_Transformation" -> "data_transformation"
      [] w = "DATA_FILTERING"      -> "data_filtering"
      [] w = "Data_Analysis"       -> "data_analysis"
      [] w = "Chat"                -> "chat"
      [] OTHER                     -> w
Lower(cs) == [i \in 1..Len(cs) |-> LowerPiece(cs[i])]

InList(x, list) == \E i \in 1..Len(list) : list[i] = x

\* lines 43-52, without the handler of line 54
ClassifyBody(cats, r) ==
    IF r.kind = "raise" THEN r
    ELSE IF r.content.t # "chars" THEN Raise("AttributeError")
    ELSE LET normalized == Lower(Strip(r.content.cs)) IN
         IF ~InList(normalized, cats) THEN Value(cats[1]) ELSE Value(normalized)

\* the reply normalized but not validated against the categories
ClassifyUnvalidated(cats, r) ==
    IF r.kind = "raise" \/ r.content.t # "chars" THEN Value(cats[1])
    ELSE Value(Lower(Strip(r.content.cs)))

\* lines 28-56: any exception yields the first category
ClassifyIntent(cats, r) ==
    LET body == ClassifyBody(cats, r) IN
    IF body.kind = "raise" THEN Value(cats[1]) ELSE body

Content(c) == [kind |-> "return", content |-> c]

ReplyWords ==
    { "data_transformation", "Data_Transformation", "data_filtering",
      "DATA_FILTERING", "data_analysis", "Data_Analysis", "chat", "Chat" }
ReplyCores ==
    { << >> } \cup { << w >> : w \in ReplyWords }
    \cup { <<"data_transformation", " ", "chat">> }
Blanks == { << >>, << " " >> }
ReplyTexts == { a \o core \o b : a \in Blanks, b \in Blanks, core \in ReplyCores }

Invocations == { Raise("TimeoutError"), Raise("ResourceExhausted") }
ClassifyReplies ==
    Invocations \cup { Content(PyChars(cs)) : cs \in ReplyTexts }
    \cup { Content(PyList(<< >>)) }

InitClassify ==
    /\ categories \in { INTENT_CATEGORIES, ALL_CATEGORIES }
    /\ reply \in ClassifyReplies
    /\ intent_out = NotRun

IdleClassify ==
    /\ categories = INTENT_CATEGORIES
    /\ reply = NotRun
    /\ intent_out = NotRun

Classify ==
    /\ intent_out = NotRun
    /\ intent_out' = ClassifyIntent(categories, reply)
    /\ UNCHANGED << categories, reply >>

(***************************************************************************)
(* LLMService.process_data and the router's process_data, from the point   *)
(* where verify_api_key has returned.                                      *)
(***************************************************************************)
ErrorMessage(err) ==
    [t |-> "str", s |-> "I encountered an error while processing your request: ",
     err |-> err]

\* _transform_data, lines 154-161: the awaited reply, then the extractor
TransformData(gen, table) ==
    IF gen.kind = "raise" THEN gen
    ELSE ParseLlmResponse(gen.content, table)

\* process_data with the handler of line 81 left out
ProcessDataUnguarded(gen, table) == TransformData(gen, table)

\* lines 58-83
ProcessData(gen, table) ==
    LET r == TransformData(gen, table) IN
    IF r.kind = "raise" THEN Return(ErrorMessage(r.err), table) ELSE r

IsListOfDicts(v) == v.t = "list" /\ \A i \in 1..Len(v.a) : v.a[i].t = "dict"

INTERNAL_ERROR == [status |-> 500]

\* the processed table wrapped once more instead of returned directly
OkWrapped(ai_message, processed) ==
    [status |-> 200, ai_message |-> ai_message,
     table_data |-> PyList(<< PyDict(<< Item("table_data", processed) >>) >>)]

\* router lines 58-64
Ok(ai_message, processed) ==
    [status |-> 200, ai_message |-> ai_message, table_data |-> processed]

\* router lines 54-74: the 200 response, or 500 when anything raised
Respond(result) ==
    IF result.kind = "raise" THEN INTERNAL_ERROR
    ELSE IF ~IsStr(result.explanation) \/ ~IsListOfDicts(result.records)
         THEN INTERNAL_ERROR       \* ProcessResponse validation
    ELSE Ok(result.explanation, result.records)

\* rows carrying contact-signal fields the way a JSON reply can hold them
SignalRow(i) ==
    PyDict(<< Item("id", PyInt(i)), Item("isNew", PyStr("yes")),
              Item("actionTaken", PyInt(0)) >>)
SignalArr(n) == PyList([i \in 1..n |-> SignalRow(i)])
SignalReplies ==
    { Render(DocObject(SignalArr(n), PyNone, PyNone, PyStr("Added tags"))) :
        n \in 1..MaxRows }

GenerationReplies ==
    Invocations \cup { Content(text) : text \in RawTexts \cup SignalReplies }

InitRequest ==
    /\ pc = "verified"
    /\ table_data \in Tables
    /\ google_api_key \in { "", "key" }
    /\ intent = NotRun
    /\ generation = NotRun
    /\ response = NotRun

IdleRequest ==
    /\ pc = "idle"
    /\ table_data = Table(0)
    /\ google_api_key = "key"
    /\ intent = NotRun
    /\ generation = NotRun
    /\ response = NotRun

\* router lines 41-50: LLMService() and the classification call
StartClassify ==
    /\ pc = "verified"
    /\ IF google_api_key = ""
       THEN pc' = "done" /\ response' = INTERNAL_ERROR
       ELSE pc' = "classify" /\ UNCHANGED response
    /\ UNCHANGED << table_data, google_api_key, intent, generation >>

\* the classification reply arrives; process_data starts the generation call
ClassifyReturns ==
    /\ pc = "classify"
    /\ \E r \in ClassifyReplies : intent' = ClassifyIntent(INTENT_CATEGORIES, r)
    /\ pc' = "generate"
    /\ UNCHANGED << table_data, google_api_key, generation, response >>

\* the generation reply arrives; extraction, the handlers, the response
GenerateReturns ==
    /\ pc = "generate"
    /\ \E g \in GenerationReplies :
          /\ generation' = g
          /\ response' = Respond(ProcessData(g, table_data))
    /\ pc' = "done"
    /\ UNCHANGED << table_data, google_api_key, intent >>

(***************************************************************************)
(* clean_json_string (simple_test_parsing.py) and the identical            *)
(* MockLLMService._clean_json_string (test_parsing.py).  Tokens carry no   *)
(* white space, so the \s* of the patterns and the blank-line pass of line *)
(* 30 have nothing to act on.                                              *)
(***************************************************************************)
\* re.sub(r'\][\s\S]*$', ']', s): the leftmost "]" and all that follows it
CutAfterClose(toks) ==
    LET i == Find(toks, Punct("]"), 1) IN
    IF i = 0 THEN toks ELSE SubSeq(toks, 1, i)

\* re.sub(r'^[\s\S]*?\[', '[', s): all that precedes the first "["
CutBeforeOpen(toks) ==
    LET i == Find(toks, Punct("["), 1) IN
    IF i = 0 THEN toks ELSE SubSeq(toks, i, Len(toks))

\* re.sub(r',\s*X', 'X', s): a comma goes when the closer X follows it
RECURSIVE DropCommaBefore(_, _)
DropCommaBefore(toks, closer) ==
    IF toks = << >> THEN << >>
    ELSE IF Head(toks) = Punct(",") /\ Len(toks) >= 2 /\ toks[2] = closer
         THEN << closer >> \o DropCommaBefore(Tail(Tail(toks)), closer)
    ELSE << Head(toks) >> \o DropCommaBefore(Tail(toks), closer)

\* re.sub(r'}\s*{', '},{', s)
RECURSIVE CommaBetweenObjects(_)
CommaBetweenObjects(toks) ==
    IF toks = << >> THEN << >>
    ELSE IF Head(toks) = Punct("}") /\ Len(toks) >= 2 /\ toks[2] = Punct("{")
         THEN << Punct("}"), Punct(","), Punct("{") >>
              \o CommaBetweenObjects(Tail(Tail(toks)))
    ELSE << Head(toks) >> \o CommaBetweenObjects(Tail(toks))

CleanJsonString(toks) ==
    CommaBetweenObjects(
        DropCommaBefore(
            DropCommaBefore(CutBeforeOpen(CutAfterClose(toks)), Punct("}")),
            Punct("]")))

\* the texts got from toks[i..] by putting a comma before any of its closing
\* "}" and "]" and by leaving out any comma that stands between "}" and "{"
RECURSIVE Damaged(_, _)
Damaged(toks, i) ==
    IF i > Len(toks) THEN { << >> }
    ELSE LET rest == Damaged(toks, i + 1)
             kept == { << toks[i] >> \o r : r \in rest }
         IN  IF toks[i] \in { Punct("}"), Punct("]") }
             THEN kept \cup { << Punct(","), toks[i] >> \o r : r \in rest }
             ELSE IF /\ toks[i] = Punct(",") /\ i > 1 /\ i < Len(toks)
                     /\ toks[i - 1] = Punct("}") /\ toks[i + 1] = Punct("{")
             THEN kept \cup rest
             ELSE kept

InitCleanup ==
    /\ \E arr \in DataArrays :
          /\ fixed_str = Render(arr)
          /\ json_text \in Damaged(Render(arr), 1)
    /\ cleaned = NotRun

IdleCleanup ==
    /\ json_text = << >>
    /\ fixed_str = << >>
    /\ cleaned = NotRun

Clean ==
    /\ cleaned = NotRun
    /\ cleaned' = Value(CleanJsonString(json_text))
    /\ UNCHANGED << json_text, fixed_str >>

(***************************************************************************)
(* app/security.py: the API key check and the per-minute rate limiter.     *)
(* A header or key is PyNone or a str whose pieces are "Bearer ", " " and  *)
(* key words.                                                              *)
(***************************************************************************)
HTTPException(status_code, detail) ==
    [kind |-> "raise", err |-> "HTTPException",
     status_code |-> status_code, detail |-> detail]

\* lines 51-59
GetApiKeyFromHeader(header) ==
    IF ~Truthy(header) THEN PyNone
    ELSE IF Head(header.cs) = "Bearer " THEN PyChars(Tail(header.cs))
    ELSE header

\* lines 15-22
ValidateApiKey(api_key) ==
    IF ~Truthy(api_key) THEN FALSE
    ELSE Len(Strip(api_key.cs)) > 0

\* str(n) of an int n >= 0
RECURSIVE StrOfInt(_)
StrOfInt(n) ==
    IF n < 10 THEN << Digits[n + 1] >>
    ELSE StrOfInt(n \div 10) \o << Digits[(n % 10) + 1] >>

\* int(window) of a stored window key
IntOfWindow(window) == IntOfChars(window).value.n

EmptyDict == [w \in {} |-> 0]

\* user_limits.get(window, 0) for the credential api_key
Counter(storage, api_key, window) ==
    IF api_key \in DOMAIN storage /\ window \in DOMAIN storage[api_key]
    THEN storage[api_key][window]
    ELSE 0

\* the comparison of line 43 made strict
RateLimitOver(current_requests, limit) == current_requests > limit

\* line 43
RateLimitReached(current_requests, limit) == current_requests >= limit

\* lines 25-48: the returned bool and rate_limit_storage after the call
CheckRateLimit(storage, api_key, minute_window, limit) ==
    LET known == IF api_key \in DOMAIN storage THEN storage
                 ELSE (api_key :> EmptyDict) @@ storage
        user_limits == known[api_key]
        kept == { w \in DOMAIN user_limits : ~(IntOfWindow(w) < minute_window - 1) }
        pruned == [w \in kept |-> user_limits[w]]
        window == StrOfInt(minute_window)
        current_requests == IF window \in kept THEN pruned[window] ELSE 0
    IN  IF RateLimitReached(current_requests, limit)
        THEN [allowed |-> FALSE, storage |-> [known EXCEPT ![api_key] = pruned]]
        ELSE [allowed |-> TRUE,
              storage |-> [known EXCEPT
                  ![api_key] = (window :> current_requests + 1) @@ pruned]]

\* lines 62-76: the outcome, the storage, and whether the limiter said yes
VerifyApiKey(storage, api_key, minute_window, limit) ==
    IF ~ValidateApiKey(api_key)
    THEN [outcome |-> HTTPException(401, "Invalid or missing API key"),
          storage |-> storage, allowed |-> FALSE]
    ELSE LET c == CheckRateLimit(storage, api_key, minute_window, limit) IN
         IF ~c.allowed
         THEN [outcome |-> HTTPException(429, "Rate limit exceeded. Please try again later."),
               storage |-> c.storage, allowed |-> FALSE]
         ELSE [outcome |-> Value(api_key), storage |-> c.storage, allowed |-> TRUE]

(***************************************************************************)
(* The server: NumRequests request coroutines on one event loop.  A        *)
(* coroutine runs alone from one await to the next, so each action is the  *)
(* code between two awaits of one request.                                 *)
(***************************************************************************)
Requests == 1..NumRequests

Headers ==
    { PyNone, PyChars(<< "Bearer ", " " >>),
      PyChars(<< "Bearer ", "k1" >>), PyChars(<< "k1" >>), PyChars(<< "k2" >>) }

NewRequest ==
    [pc |-> "new", header |-> PyNone,
     minute |-> 0,         \* the minute at which check_rate_limit ran, if it did
     allowed |-> FALSE,    \* what check_rate_limit returned
     started |-> << >>, intent |-> NotRun, response |-> NotRun]

\* both except clauses treating every exception alike
RouterExceptAll(exc) == INTERNAL_ERROR

\* router lines 66-74: an HTTPException is re-raised, anything else is a 500
RouterExcept(exc) ==
    IF exc.err = "HTTPException"
    THEN [status |-> exc.status_code, detail |-> exc.detail]
    ELSE INTERNAL_ERROR

Call(r, name) == [req |-> r, call |-> name]

\* self.llm.ainvoke(messages) is called and awaited
Invoke(flying, r, name) == flying \cup { Call(r, name) }

\* the call left running while the coroutine goes on
NotAwaited(flying, r, name) == flying

\* the awaited ainvoke has returned
Awaited(flying, r, name) == flying \ { Call(r, name) }

ServerReplies ==
    { Content(Render(DocObject(FlatArr(1), PyNone, PyNone, PyStr("Added tags")))),
      Content(Render(DocObject(PyList(<< PyInt(1) >>), PyNone, PyNone,
                               PyStr("Added tags")))) }

ServerClassifyReplies ==
    { Raise("TimeoutError"), Content(PyChars(<< "data_transformation" >>)),
      Content(PyChars(<< "Chat" >>)) }

InitServer ==
    /\ rate_limit_storage = EmptyDict
    /\ clock = FirstMinute
    /\ rate_limit \in 1..MaxLimit
    /\ requests = [r \in Requests |-> NewRequest]
    /\ in_flight = {}

IdleServer ==
    /\ rate_limit_storage = EmptyDict
    /\ clock = FirstMinute
    /\ rate_limit = 1
    /\ requests = << >>
    /\ in_flight = {}

\* the clock reaches the next minute
Tick ==
    /\ clock < FirstMinute + MaxMinutes
    /\ clock' = clock + 1
    /\ UNCHANGED << rate_limit_storage, rate_limit, requests, in_flight >>

\* router lines 37-50: the key check, LLMService(), the classification call.
\* Requests are numbered in their order of arrival.
Receive(r) ==
    /\ requests[r].pc = "new"
    /\ \A q \in 1..(r - 1) : requests[q].pc # "new"
    /\ \E header \in Headers :
         LET v == VerifyApiKey(rate_limit_storage, GetApiKeyFromHeader(header),
                               clock, rate_limit)
             seen == [requests[r] EXCEPT
                         !.header = header,
                         !.minute = IF v.outcome.kind = "raise"
                                       /\ v.outcome.status_code = 401
                                    THEN 0 ELSE clock,
                         !.allowed = v.allowed]
         IN  /\ rate_limit_storage' = v.storage
             /\ IF v.outcome.kind = "raise"
                THEN /\ requests' = [requests EXCEPT ![r] =
                            [seen EXCEPT !.pc = "done",
                                         !.response = RouterExcept(v.outcome)]]
                     /\ UNCHANGED in_flight
                ELSE IF google_api_key = ""
                THEN /\ requests' = [requests EXCEPT ![r] =
                            [seen EXCEPT !.pc = "done",
                                         !.response = RouterExcept(Raise("ValueError"))]]
                     /\ UNCHANGED in_flight
                ELSE /\ requests' = [requests EXCEPT ![r] =
                            [seen EXCEPT !.pc = "classify",
                                         !.started = << "classify" >>]]
                     /\ in_flight' = Invoke(in_flight, r, "classify")
    /\ UNCHANGED << clock, rate_limit >>

\* llm_service lines 44-56, 154-159: the classification reply arrives, the
\* intent is settled, the generation call is made
ClassifyDone(r) ==
    /\ requests[r].pc = "classify"
    /\ Call(r, "classify") \in in_flight
    /\ \E c \in ServerClassifyReplies :
         requests' = [requests EXCEPT ![r] =
             [@ EXCEPT !.pc = "generate",
                       !.intent = ClassifyIntent(INTENT_CATEGORIES, c),
                       !.started = Append(@, "generate")]]
    /\ in_flight' = Invoke(Awaited(in_flight, r, "classify"), r, "generate")
    /\ UNCHANGED << rate_limit_storage, clock, rate_limit >>

\* llm_service lines 159-161, 71-83 and router lines 58-74: the generation
\* reply arrives, is extracted, and the response is built
GenerateDone(r) ==
    /\ requests[r].pc = "generate"
    /\ Call(r, "generate") \in in_flight
    /\ \E g \in ServerReplies :
         requests' = [requests EXCEPT ![r] =
             [@ EXCEPT !.pc = "done",
                       !.response = Respond(ProcessData(g, table_data))]]
    /\ in_flight' = Awaited(in_flight, r, "generate")
    /\ UNCHANGED << rate_limit_storage, clock, rate_limit >>

(***************************************************************************)
(* Specifications: one per component, the others idle.                     *)
(***************************************************************************)
InitExtractor ==
    /\ InitExtract
    /\ IdleNormalize
    /\ IdleClassify
    /\ IdleRequest
    /\ IdleCleanup
    /\ IdleServer
NextExtractor ==
    \/ ParseService
       /\ UNCHANGED << normVars, classVars, reqVars, cleanVars, serverVars >>
    \/ ParseScript
       /\ UNCHANGED << normVars, classVars, reqVars, cleanVars, serverVars >>
SpecExtractor == InitExtractor /\ [][NextExtractor]_vars

InitNormalizer ==
    /\ IdleExtract
    /\ InitNormalize
    /\ IdleClassify
    /\ IdleRequest
    /\ IdleCleanup
    /\ IdleServer
NextNormalizer ==
    \/ NormalizeOnce
       /\ UNCHANGED << extractVars, classVars, reqVars, cleanVars, serverVars >>
    \/ NormalizeTwice
       /\ UNCHANGED << extractVars, classVars, reqVars, cleanVars, serverVars >>
SpecNormalizer == InitNormalizer /\ [][NextNormalizer]_vars

InitClassifier ==
    /\ IdleExtract
    /\ IdleNormalize
    /\ InitClassify
    /\ IdleRequest
    /\ IdleCleanup
    /\ IdleServer
NextClassifier ==
    \/ Classify
       /\ UNCHANGED << extractVars, normVars, reqVars, cleanVars, serverVars >>
SpecClassifier == InitClassifier /\ [][NextClassifier]_vars

InitCleaner ==
    /\ IdleExtract
    /\ IdleNormalize
    /\ IdleClassify
    /\ IdleRequest
    /\ InitCleanup
    /\ IdleServer
NextCleaner ==
    \/ Clean
       /\ UNCHANGED << extractVars, normVars, classVars, reqVars, serverVars >>
SpecCleanup == InitCleaner /\ [][NextCleaner]_vars

Init ==
    /\ IdleExtract
    /\ IdleNormalize
    /\ IdleClassify
    /\ InitRequest
    /\ IdleCleanup
    /\ IdleServer
Next ==
    \/ StartClassify
       /\ UNCHANGED << extractVars, normVars, classVars, cleanVars, serverVars >>
    \/ ClassifyReturns
       /\ UNCHANGED << extractVars, normVars, classVars, cleanVars, serverVars >>
    \/ GenerateReturns
       /\ UNCHANGED << extractVars, normVars, classVars, cleanVars, serverVars >>
Spec == Init /\ [][Next]_vars

InitConcurrent ==
    /\ IdleExtract
    /\ IdleNormalize
    /\ IdleClassify
    /\ IdleRequest
    /\ IdleCleanup
    /\ InitServer
NextConcurrent ==
    \/ Tick
       /\ UNCHANGED << extractVars, normVars, classVars, reqVars, cleanVars >>
    \/ \E r \in Requests : Receive(r)
       /\ UNCHANGED << extractVars, normVars, classVars, reqVars, cleanVars >>
    \/ \E r \in Requests : ClassifyDone(r)
       /\ UNCHANGED << extractVars, normVars, classVars, reqVars, cleanVars >>
    \/ \E r \in Requests : GenerateDone(r)
       /\ UNCHANGED << extractVars, normVars, classVars, reqVars, cleanVars >>
SpecServer == InitConcurrent /\ [][NextConcurrent]_vars

(***************************************************************************)
(* Properties.                                                             *)
(***************************************************************************)
DataKeys == { "TRANSFORMED_DATA", "FILTERED_DATA", "ANALYZED_DATA" }
Markers == { TD_MARKER, FD_MARKER, AD_MARKER }

\* the reply is `pre marker array tail post` for a well-formed array
IsMarkerReply(text, marker, arr) ==
    \E a \in Surround, b \in Surround, t \in ExplanationTails :
        text = a \o MarkerReply(marker, arr, t) \o b

\* no marker word and no key string anywhere in the reply
NoMarker(text) ==
    \A i \in 1..Len(text) :
        /\ text[i] \notin Markers \cup { EX_MARKER }
        /\ ~(text[i].k = "string" /\ text[i].s \in DataKeys \cup { "EXPLANATION" })

\* C1: the Response Extractor never raises, whatever the raw text and the
\* fallback table: every call ends in an (explanation, records) pair.
C1_ExtractorNeverRaises == svc_out.kind # "raise"

\* C2: for a raw text with no recognizable marker and no valid top-level
\* JSON, the extractor returns the fixed "could not parse" explanation and
\* exactly the original fallback table.
C2_FallbackGuarantee ==
    (svc_out # NotRun /\ NoMarker(response_content)
        /\ ~JsonLoads(response_content).ok)
    => svc_out = Return(COULD_NOT_PARSE, fallback_data)

\* C3: whenever the generation invocation or the extraction raises,
\* process_data does not raise: the request is answered with the message
\* embedding the error's text and with the original input table.
C3_FailedReturnsOriginal ==
    (pc = "done" /\ generation # NotRun) =>
        /\ generation.kind = "raise"
            => response = Ok(ErrorMessage(generation.err), table_data)
        /\ (generation.kind = "return"
              /\ ParseLlmResponse(generation.content, table_data).kind = "raise")
            => response =
                 Ok(ErrorMessage(ParseLlmResponse(generation.content, table_data).err),
                    table_data)

C3_Witness ==
    /\ pc = "done"
    /\ generation = Content(Render(FlatArr(1)))
    /\ table_data = Table(2)
    /\ response = Ok(ErrorMessage("AttributeError"), Table(2))

\* C4: the explanation of every extraction result is never empty; a reply
\* without an EXPLANATION key gets a fixed non-empty placeholder.
C4_ExplanationNeverEmpty ==
    svc_out.kind = "return" => svc_out.explanation # PyStr("")

\* C5: classify_intent never raises and returns a configured category: the
\* trimmed, lowercased reply when that is a category, else categories[0].
C5_ClassifyDefault ==
    intent_out # NotRun =>
        /\ intent_out.kind = "return"
        /\ InList(intent_out.value, categories)
        /\ IF reply.kind = "return" /\ reply.content.t = "chars"
              /\ InList(Lower(Strip(reply.content.cs)), categories)
           THEN intent_out.value = Lower(Strip(reply.content.cs))
           ELSE intent_out.value = categories[1]

C5_Witness ==
    /\ categories = ALL_CATEGORIES
    /\ reply = Content(PyChars(<< " ", "Chat" >>))
    /\ intent_out = Value(<<"data_filtering">>)

\* C6: a reply object whose first present data key holds an empty array
\* yields an empty records table, not a later alias and not the fallback.
C6_TieBreakEmptyArray ==
    \A o \in DocObjects :
        (svc_out # NotRun /\ response_content = Render(o)
            /\ FirstPresent(DictGet(o, "TRANSFORMED_DATA", PyNone),
                            DictGet(o, "FILTERED_DATA", PyNone),
                            DictGet(o, "ANALYZED_DATA", PyNone), PyNone) = PyList(<< >>))
        => (svc_out.kind = "return" /\ svc_out.records = PyList(<< >>))

\* C7: for a raw text that is valid JSON of the documented object shape the
\* records are the value of the first present data key and the explanation
\* is the value of the EXPLANATION key.
C7_DirectParseMatchesDecode ==
    \A o \in DocObjects :
        (svc_out # NotRun /\ response_content = Render(o)
            /\ HasKey(o, "EXPLANATION") /\ \E k \in DataKeys : HasKey(o, k))
        => svc_out = Return(DictGet(o, "EXPLANATION", PyNone),
                            FirstPresent(DictGet(o, "TRANSFORMED_DATA", PyNone),
                                         DictGet(o, "FILTERED_DATA", PyNone),
                                         DictGet(o, "ANALYZED_DATA", PyNone), PyNone))

\* C8: for a raw text with prose around one well-formed array under a
\* recognized marker, the extractor's records are that array.
C8_MarkerArrayExtracted ==
    \A m \in Markers, arr \in DataArrays :
        (svc_out # NotRun /\ IsMarkerReply(response_content, m, arr))
        => (svc_out.kind = "return" /\ svc_out.records = arr)

C10_NormalizeIdempotent == twice # NotRun => twice = once

C10_Witness ==
    /\ twice # NotRun
    /\ once.kind = "return"
    /\ once.value # data
    /\ Len(data.a) = 2
    /\ twice = once

\* the token sequence part occurs in text as one contiguous run
IsSlice(part, text) ==
    \E i \in 0..(Len(text) - Len(part)) :
        \A j \in 1..Len(part) : text[i + j] = part[j]

\* the reply holds the table, written out in full, as the value of a data key
ExtractedFrom(table, text) ==
    \E k \in DataKeys : IsSlice(<< StrTok(k), Punct(":") >> \o Render(table), text)

\* C11: every answered request's table is, row for row, either the caller's
\* input table or an array the generation reply holds under a data key;
\* there is no third table.
C11_TableIsExtractedOrOriginal ==
    (pc = "done" /\ response # NotRun /\ response.status = 200) =>
        \/ response.table_data = table_data
        \/ /\ generation.kind = "return"
           /\ ExtractedFrom(response.table_data, generation.content)

C11_Witness ==
    /\ pc = "done"
    /\ table_data = Table(1)
    /\ response.status = 200
    /\ response.table_data = NestedArr(2)
    /\ generation.kind = "return"
    /\ ExtractedFrom(NestedArr(2), generation.content)

\* C12: a request that ends with a successful extraction returns the
\* extracted records as the Type Normalizer leaves them, the normalizer
\* being the last step before the result is returned.
C12_NormalizedBeforeReturn ==
    (pc = "done" /\ generation # NotRun /\ generation.kind = "return") =>
        LET r == ParseLlmResponse(generation.content, table_data) IN
        (r.kind = "return" /\ IsListOfDicts(r.records)) =>
            /\ NormalizeContactSignals(r.records).kind = "return"
            /\ response.status = 200
            /\ response.table_data = NormalizeContactSignals(r.records).value

\* the keys of a dict value
KeysOf(d) == { d.m[i].k : i \in 1..Len(d.m) }

\* C14: normalization never raises: it returns a table with as many rows
\* as the input, each with the keys of its input row, and a confidence
\* that is a string that cannot be read as a number is left as it was.
C14_NormalizeNeverRaises ==
    once # NotRun =>
        /\ once.kind = "return"
        /\ Len(once.value.a) = Len(data.a)
        /\ \A i \in 1..Len(data.a) :
              /\ KeysOf(once.value.a[i]) = KeysOf(data.a[i])
              /\ LET v == DictGet(data.a[i], "confidence", PyNone) IN
                 (v.t = "chars" /\ IntOfChars(v.cs).kind = "raise")
                   => DictGet(once.value.a[i], "confidence", PyNone) = v

\* C15: for a candidate array text whose only defects are commas before a
\* closing "}" or "]" and commas missing between "}" and "{", the cleaned
\* text decodes, and to the array the hand-corrected text decodes to.
C15_CleanupRepairs ==
    cleaned # NotRun =>
        /\ JsonLoads(cleaned.value).ok
        /\ JsonLoads(cleaned.value).val = JsonLoads(fixed_str).val

\* the requests the server holds
Held == DOMAIN requests

Minutes == FirstMinute..(FirstMinute + MaxMinutes)

\* C13: within one request the two model invocations are sequential under
\* every interleaving of the requests: a request has at most one invocation
\* in flight, and its generation call is started only after its
\* classification call has returned and settled the intent.
C13_SequentialInvocations ==
    \A r \in Held :
        /\ Cardinality({ c \in in_flight : c.req = r }) <= 1
        /\ requests[r].started \in
             { << >>, << "classify" >>, << "classify", "generate" >> }
        /\ (Call(r, "generate") \in in_flight \/ Len(requests[r].started) = 2)
             => /\ Call(r, "classify") \notin in_flight
                /\ requests[r].intent # NotRun
                /\ requests[r].intent.kind = "return"

C13_Witness ==
    /\ Call(1, "generate") \in in_flight
    /\ Call(2, "classify") \in in_flight
    /\ requests[1].intent = Value(<< "data_transformation" >>)
    /\ requests[2].intent = NotRun

\* the credentials a header of the model can carry
ApiKeys == { GetApiKeyFromHeader(h) : h \in Headers } \ { PyNone }

\* the requests for which check_rate_limit returned True for api_key in minute m
Grants(api_key, m) ==
    { r \in Held : /\ requests[r].allowed
                   /\ GetApiKeyFromHeader(requests[r].header) = api_key
                   /\ requests[r].minute = m }

\* request r is received in this step
Received(r) == requests[r].pc = "new" /\ requests'[r].pc # "new"

C16_CountersWithinLimit ==
    \A k \in ApiKeys, m \in Minutes :
        /\ Cardinality(Grants(k, m)) <= rate_limit
        /\ Counter(rate_limit_storage, k, StrOfInt(m)) <= rate_limit

C16_CallsKeepApart ==
    \A r \in Held : Received(r) =>
        LET k == GetApiKeyFromHeader(requests'[r].header) IN
        /\ (requests'[r].response # NotRun /\ requests'[r].response.status = 429)
             => Counter(rate_limit_storage', k, StrOfInt(clock))
                  = Counter(rate_limit_storage, k, StrOfInt(clock))
        /\ \A k2 \in ApiKeys \ { k }, m \in Minutes :
               Counter(rate_limit_storage', k2, StrOfInt(m))
                 = Counter(rate_limit_storage, k2, StrOfInt(m))

\* C16: check_rate_limit says yes at most RATE_LIMIT_PER_MINUTE times per
\* credential and minute window, under every order of the requests: no
\* stored counter exceeds the limit, a refused call leaves the counter of
\* the running window as it was, and a call for one credential changes no
\* counter of another credential.
C16_RateLimit == []C16_CountersWithinLimit /\ [][C16_CallsKeepApart]_vars

C16_Witness ==
    /\ rate_limit = 1
    /\ requests[1].header = PyChars(<< "k1" >>)
    /\ requests[1].allowed
    /\ requests[2].header = PyChars(<< "Bearer ", "k1" >>)
    /\ requests[2].minute = requests[1].minute
    /\ requests[2].response # NotRun
    /\ requests[2].response.status = 429
    /\ Counter(rate_limit_storage, PyChars(<< "k1" >>), StrOfInt(clock)) = 1

\* no key at all, or nothing but blanks after an optional "Bearer " prefix
Blank(header) ==
    \/ header = PyNone
    \/ LET cs == IF header.cs # << >> /\ Head(header.cs) = "Bearer "
                 THEN Tail(header.cs) ELSE header.cs
       IN  \A i \in 1..Len(cs) : cs[i] = " "

C17_DeniedNeverInvokes ==
    /\ \A c \in in_flight : requests[c.req].allowed
    /\ \A r \in Held : requests[r].pc # "new" =>
        LET q == requests[r] IN
        /\ Blank(q.header) =>
             /\ q.pc = "done" /\ q.response.status = 401
             /\ q.started = << >> /\ ~q.allowed
        /\ (~Blank(q.header) /\ ~q.allowed) =>
             /\ q.pc = "done" /\ q.response.status = 429
             /\ q.started = << >>
             /\ Cardinality(Grants(GetApiKeyFromHeader(q.header), q.minute))
                  = rate_limit
        /\ q.started # << >> => q.allowed

C17_BlankKeyUsesNoQuota ==
    \A r \in Held :
        (Received(r) /\ Blank(requests'[r].header))
            => rate_limit_storage' = rate_limit_storage

\* C17: the key check and the rate limit come before everything else: a
\* request that is refused (no key, a blank key, or the quota used up)
\* starts no model invocation and ends with its 401 or 429, not with a 500,
\* and a request with no key or a blank key uses up no quota.
C17_GateBeforeInvocation ==
    []C17_DeniedNeverInvokes /\ [][C17_BlankKeyUsesNoQuota]_vars

C17_Witness ==
    /\ requests[1].header = PyChars(<< "Bearer ", " " >>)
    /\ requests[1].response = [status |-> 401, detail |-> "Invalid or missing API key"]
    /\ requests[1].started = << >>
    /\ rate_limit_storage # EmptyDict
    /\ requests[2].pc = "generate"
    /\ requests[2].allowed

====
